---- MODULE Spec2Model ----
(***************************************************************************)
(* Model of libutil's utils.h: the abort-on-failure allocation wrappers    *)
(* (_xmalloc, _xrealloc, _xfree) and the leveled logger __output with its  *)
(* interactive Warn_Ack confirmation loop.                                 *)
(*                                                                         *)
(* Streams are sequences of text fragments.  Characters are their byte     *)
(* values; getc yields a byte value or EOF.                                *)
(***************************************************************************)
EXTENDS Integers, Sequences, FiniteSets, TLC

VARIABLES
    status,      \* "running" | "returned" | "aborted" | "exit255"
    stdout,      \* text written to standard output, in order
    stderr,      \* text written to standard error, in order
    stdin,       \* bytes of standard input not yet read
    pc,          \* position inside __output: idle, prompt, getc, switch, drain, done
    outputType,  \* severity argument of the current __output call
    func,        \* call-site routine name
    file,        \* call-site file name
    line,        \* call-site line number
    fmt,         \* format string, as a sequence of literal pieces and conversions
    args,        \* variadic arguments
    yn,          \* the local `char yn`
    charSigned,  \* whether plain char is signed in this build
    input0,      \* history: standard input as it was when __output was called
    reads,       \* history: results of getc at the prompt, in order
    p,           \* the caller's pointer variable
    live,        \* addresses currently allocated
    ret,         \* value last returned by _xmalloc/_xrealloc to the caller
    sysret,      \* history: what malloc/realloc returned in the last call
    sysarg,      \* history: the pointer passed to the last call
    lastOp,      \* history: the last allocation-guard operation called
    prevOp,      \* history: the allocation-guard operation called before it
    releases,    \* history: number of regions handed back by free
    ncalls       \* history: number of allocation-guard calls made

logvars == <<pc, outputType, func, file, line, fmt, args, yn, charSigned, input0, reads, stdin>>
memvars == <<p, live, ret, sysret, sysarg, lastOp, prevOp, releases, ncalls>>
vars == <<status, stdout, stderr, logvars, memvars>>

(***************************************************************************)
(* Bounds of the model.                                                    *)
(***************************************************************************)
MaxInput == 3    \* longest enumerated content of standard input
MaxOut == 30     \* fragments recorded per stream; later writes are not recorded
MaxCalls == 4    \* allocation-guard calls per behaviour
MaxAddr == 3     \* number of distinct heap addresses
MaxSize == 2     \* largest requested size

(***************************************************************************)
(* Program constants.                                                      *)
(***************************************************************************)
Info == 0
Warn_NoAck == 1
Warn_Ack == 2
Error == 3
OutputTypes == {Info, Warn_NoAck, Warn_Ack, Error}

EOF == 0 - 1
NULL == 0
ChY == 89
Chy == 121
ChN == 78
Chn == 110
ChCR == 13
ExitUserTerminated == 255

HeadStr == " ** libutils:"
PromptStr == " -> Continue? [y/N]"
RepromptStr == "    Please answer [y]es or [N]o."
MallocDiag == " ** libutils: FATAL: memory allocation failed!"
ReallocDiag == " ** libutils: FATAL: memory reallocation failed!"
NL == "\n"

\* bytes standard input is made of: the five answers, and line feed, x, z
Bytes == {ChY, Chy, ChN, Chn, ChCR} \cup {10, 120, 122}
\* the line xyz and its line feed
XyzLine == <<120, Chy, 122, 10>>
\* x, then y and a line feed
XyLine == <<120, Chy, 10>>
\* y and a line feed, then x
YThenMore == <<Chy, 10, 120>>

SeqsUpTo(S, n) == UNION {[1..k -> S] : k \in 0..n}
Inputs == SeqsUpTo(Bytes, MaxInput) \cup {XyzLine}

(***************************************************************************)
(* printf-style formatting.                                                *)
(***************************************************************************)
DigitStr(d) == CASE d = 0 -> "0" [] d = 1 -> "1" [] d = 2 -> "2" [] d = 3 -> "3"
                 [] d = 4 -> "4" [] d = 5 -> "5" [] d = 6 -> "6" [] d = 7 -> "7"
                 [] d = 8 -> "8" [] d = 9 -> "9"

RECURSIVE Digits(_)
Digits(n) == IF n < 10 THEN <<DigitStr(n)>> ELSE Digits(n \div 10) \o <<DigitStr(n % 10)>>

\* %d conversion of an int
ConvD(n) == IF n < 0 THEN <<"-">> \o Digits(0 - n) ELSE Digits(n)

RECURSIVE Format(_, _)
Format(f, a) ==
    IF f = <<>> THEN <<>>
    ELSE IF Head(f) = "%d" THEN ConvD(Head(a)) \o Format(Tail(f), Tail(a))
    ELSE IF Head(f) = "%s" THEN <<Head(a)>> \o Format(Tail(f), Tail(a))
    ELSE <<Head(f)>> \o Format(Tail(f), a)

Min(a, b) == IF a < b THEN a ELSE b

\* a write to a stream
Write(stream, text) ==
    LET all == stream \o text IN SubSeq(all, 1, Min(Len(all), MaxOut))

(***************************************************************************)
(* __output: pieces of the code.                                           *)
(***************************************************************************)
\* faulty variant: every case prints the INFO level
LevelTextAllInfo(t) == IF t = Error THEN "FAIL" ELSE "INFO"

LevelText(t) == CASE t = Info -> "INFO" [] t = Warn_NoAck -> "WARN"
                  [] t = Warn_Ack -> "WARN" [] t = Error -> "FAIL"

\* the format string of the prefix printf of each case
PrefixFmt(t) == <<"%s", " In ", "%s", " (", "%s", ":", "%d", ") ", LevelText(t), ": ">>

\* the prefix as printed: printf (PrefixFmt, Head, func, file, line)
Prefix(t, fn, fl, ln) == Format(PrefixFmt(t), <<HeadStr, fn, fl, ln>>)

\* the message as printed: vprintf (fmt, args)
Message(f, a) == Format(f, a)

\* getc (stdin): the next byte, or EOF at end of stream
Getc(s) == IF s = <<>> THEN EOF ELSE Head(s)
Rest(s) == IF s = <<>> THEN s ELSE Tail(s)

\* conversion of getc's int to the char yn
ToChar(i) ==
    LET b == i % 256 IN
    IF charSigned /\ b >= 128 THEN b - 256 ELSE b

\* faulty variant: the case '\r' label is missing
ClassifyNoCR(c) ==
    IF c \in {ChY, Chy} THEN "accept"
    ELSE IF c \in {ChN, Chn} THEN "decline"
    ELSE "other"

\* faulty variant: the case 'y' label is missing
ClassifyNoLowerY(c) ==
    IF c \in {ChY} THEN "accept"
    ELSE IF c \in {ChN, Chn, ChCR} THEN "decline"
    ELSE "other"

\* the inner switch (yn)
Classify(c) ==
    IF c \in {ChY, Chy} THEN "accept"
    ELSE IF c \in {ChN, Chn, ChCR} THEN "decline"
    ELSE "other"

\* faulty variant: the cleaning loop stops at the end of the line
DrainMoreToNewline(c) == c # EOF /\ c # 10

\* the condition of the loop that cleans stdin
DrainMore(c) == c # EOF

\* the status exit (255) ends the process with
ExitStatus(code) == IF code = ExitUserTerminated THEN "exit255" ELSE "exited"

\* faulty variant: the default case prints nothing
DefaultTextNone == <<>>

\* what the default case prints
DefaultText == <<RepromptStr>>

\* what each turn of the loop prints first
PromptText == <<PromptStr>>

Funcs == {"main"}
Files == {"a.c"}
Lines == {10}
FmtOf(i) == IF i = 1 THEN <<"value=", "%d">> ELSE <<"%s", "=", "%d">>
ArgsOf(i) == IF i = 1 THEN <<42>> ELSE <<"x", 1>>
CallIds == {1, 2}

Enter(t, fn, fl, ln, i) ==
    /\ pc = "idle"
    /\ status = "running"
    /\ outputType' = t
    /\ func' = fn
    /\ file' = fl
    /\ line' = ln
    /\ fmt' = FmtOf(i)
    /\ args' = ArgsOf(i)
    /\ yn' = ChN
    /\ UNCHANGED <<charSigned, input0, reads, memvars>>

\* case Info
OutputInfo(fn, fl, ln, i) ==
    /\ Enter(Info, fn, fl, ln, i)
    /\ stdout' = Write(Write(Write(stdout, Prefix(Info, fn, fl, ln)),
                             Message(FmtOf(i), ArgsOf(i))), <<NL>>)
    /\ pc' = "done"
    /\ status' = "returned"
    /\ UNCHANGED <<stderr, stdin>>

\* case Warn_NoAck
OutputWarnNoAck(fn, fl, ln, i) ==
    /\ Enter(Warn_NoAck, fn, fl, ln, i)
    /\ stdout' = Write(Write(Write(stdout, Prefix(Warn_NoAck, fn, fl, ln)),
                             Message(FmtOf(i), ArgsOf(i))), <<NL>>)
    /\ pc' = "done"
    /\ status' = "returned"
    /\ UNCHANGED <<stderr, stdin>>

\* case Warn_Ack, up to the confirmation loop
OutputWarnAck(fn, fl, ln, i) ==
    /\ Enter(Warn_Ack, fn, fl, ln, i)
    /\ stdout' = Write(Write(Write(stdout, Prefix(Warn_Ack, fn, fl, ln)),
                             Message(FmtOf(i), ArgsOf(i))), <<NL>>)
    /\ pc' = "prompt"
    /\ UNCHANGED <<status, stderr, stdin>>

\* standard output once abort () has ended the process, after printf wrote text:
\* the text is on the stream when it was unbuffered or line-buffered to a
\* terminal, or abort flushed it (flushed); it is lost when it was still in the
\* stdio buffer and abort did not flush
AtAbort(stream, text, flushed) == IF flushed THEN Write(stream, text) ELSE stream

\* case Error
OutputError(fn, fl, ln, i, flushed) ==
    /\ Enter(Error, fn, fl, ln, i)
    /\ stderr' = Write(Write(stderr, Prefix(Error, fn, fl, ln)),
                       Message(FmtOf(i), ArgsOf(i)))
    /\ stdout' = AtAbort(stdout, <<NL>>, flushed)
    /\ pc' = "done"
    /\ status' = "aborted"
    /\ UNCHANGED stdin

\* printf (" -> Continue? [y/N]")
Prompt ==
    /\ pc = "prompt"
    /\ stdout' = Write(stdout, PromptText)
    /\ pc' = "getc"
    /\ UNCHANGED <<status, stderr, stdin, outputType, func, file, line, fmt, args, yn,
                   charSigned, input0, reads, memvars>>

\* yn = getc (stdin)
ReadAnswer ==
    /\ pc = "getc"
    /\ yn' = ToChar(Getc(stdin))
    /\ stdin' = Rest(stdin)
    /\ reads' = IF Len(reads) < MaxOut THEN Append(reads, Getc(stdin)) ELSE reads
    /\ pc' = "switch"
    /\ UNCHANGED <<status, stdout, stderr, outputType, func, file, line, fmt, args,
                   charSigned, input0, memvars>>

\* switch (yn)
Switch ==
    /\ pc = "switch"
    /\ CASE Classify(yn) = "accept" ->
              /\ pc' = "drain"
              /\ UNCHANGED <<status, stdout>>
         [] Classify(yn) = "decline" ->
              /\ pc' = "done"
              /\ status' = ExitStatus(255)
              /\ UNCHANGED stdout
         [] OTHER ->
              /\ stdout' = Write(stdout, DefaultText)
              /\ pc' = "prompt"
              /\ UNCHANGED status
    /\ UNCHANGED <<stderr, stdin, outputType, func, file, line, fmt, args, yn,
                   charSigned, input0, reads, memvars>>

\* one test of while (getc(stdin) != EOF), and the return after it
Drain ==
    /\ pc = "drain"
    /\ stdin' = Rest(stdin)
    /\ IF DrainMore(Getc(stdin))
       THEN UNCHANGED <<pc, status>>
       ELSE pc' = "done" /\ status' = "returned"
    /\ UNCHANGED <<stdout, stderr, outputType, func, file, line, fmt, args, yn,
                   charSigned, input0, reads, memvars>>

(***************************************************************************)
(* Allocation guard.  The caller keeps one pointer variable p and calls    *)
(* p = _xmalloc (size), p = _xrealloc (p, size) and _xfree (p).            *)
(***************************************************************************)
Addrs == 1..MaxAddr
Sizes == 0..MaxSize
Fresh == Addrs \ live

\* what malloc (size) may return
MallocResults(size) == {NULL} \cup Fresh

\* what realloc (ptr, size) may return
ReallocResults(ptr, size) == {NULL} \cup Fresh \cup (IF ptr = NULL THEN {} ELSE {ptr})

\* faulty variant: the result of malloc is not tested
XmallocOkUnchecked(ptr) == TRUE

\* the test of _xmalloc
XmallocOk(ptr) == ptr # NULL

\* faulty variant: only the null test is made
XreallocOkNullOnly(ptr, newBuf) == newBuf # NULL

\* the test of _xrealloc
XreallocOk(ptr, newBuf) == (newBuf # NULL) /\ (newBuf # ptr)

\* faulty variant: the variable is left as it was
XfreeAssignKeep(ptr) == ptr

\* what _xfree leaves in the caller's variable
XfreeAssign(ptr) == NULL

\* the heap after free (ptr)
Free(ptr) == IF ptr = NULL THEN live ELSE live \ {ptr}

\* the heap after realloc (ptr, size) returned r; zfree: a failed zero-size
\* request released the block, as some allocators do
HeapAfterRealloc(ptr, size, r, zfree) ==
    IF r = NULL THEN (IF zfree THEN live \ {ptr} ELSE live)
    ELSE IF r = ptr THEN live
    ELSE (live \ {ptr}) \cup {r}

MemCall(op, ptr, size, r) ==
    /\ pc = "idle"
    /\ status = "running"
    /\ ncalls < MaxCalls
    /\ ncalls' = ncalls + 1
    /\ lastOp' = op
    /\ prevOp' = lastOp
    /\ sysarg' = <<ptr, size>>
    /\ sysret' = r
    /\ UNCHANGED <<stdout, logvars>>

Xmalloc(size, r) ==
    /\ MemCall("xmalloc", NULL, size, r)
    /\ r \in MallocResults(size)
    /\ live' = IF r = NULL THEN live ELSE live \cup {r}
    /\ IF XmallocOk(r)
       THEN /\ ret' = r
            /\ p' = r
            /\ UNCHANGED <<status, stderr>>
       ELSE /\ stderr' = Write(stderr, <<MallocDiag>>)
            /\ status' = "aborted"
            /\ UNCHANGED <<ret, p>>
    /\ UNCHANGED releases

Xrealloc(size, r, zfree) ==
    /\ MemCall("xrealloc", p, size, r)
    /\ r \in ReallocResults(p, size)
    /\ zfree => (r = NULL /\ size = 0 /\ p # NULL)
    /\ live' = HeapAfterRealloc(p, size, r, zfree)
    /\ IF XreallocOk(p, r)
       THEN /\ ret' = r
            /\ p' = r
            /\ UNCHANGED <<status, stderr>>
       ELSE /\ stderr' = Write(stderr, <<ReallocDiag>>)
            /\ status' = "aborted"
            /\ UNCHANGED <<ret, p>>
    /\ UNCHANGED releases

Xfree ==
    /\ MemCall("xfree", p, 0, NULL)
    /\ live' = Free(p)
    /\ releases' = IF p = NULL THEN releases ELSE releases + 1
    /\ p' = XfreeAssign(p)
    /\ UNCHANGED <<status, stderr, ret>>

InitMem ==
    /\ p = NULL
    /\ live = {}
    /\ ret = NULL
    /\ sysret = NULL
    /\ sysarg = <<NULL, 0>>
    /\ lastOp = "none"
    /\ prevOp = "none"
    /\ releases = 0
    /\ ncalls = 0

Init ==
    /\ status = "running"
    /\ stdout = <<>>
    /\ stderr = <<>>
    /\ stdin \in Inputs
    /\ input0 = stdin
    /\ pc = "idle"
    /\ outputType = Info
    /\ func = ""
    /\ file = ""
    /\ line = 0
    /\ fmt = <<>>
    /\ args = <<>>
    /\ yn = ChN
    /\ charSigned \in BOOLEAN
    /\ reads = <<>>
    /\ InitMem

Next ==
    \/ \E fn \in Funcs, fl \in Files, ln \in Lines, i \in CallIds :
          \/ OutputInfo(fn, fl, ln, i)
          \/ OutputWarnNoAck(fn, fl, ln, i)
          \/ OutputWarnAck(fn, fl, ln, i)
          \/ \E flushed \in BOOLEAN : OutputError(fn, fl, ln, i, flushed)
    \/ Prompt
    \/ ReadAnswer
    \/ Switch
    \/ Drain

Spec == Init /\ [][Next]_vars

\* the process keeps running its code while it has not ended
FairSpec == Spec /\ WF_vars(Next)

InitAlloc ==
    /\ Init
    /\ stdin = <<>>
    /\ charSigned

NextAlloc ==
    \/ \E size \in Sizes, r \in {NULL} \cup Addrs : Xmalloc(size, r)
    \/ \E size \in Sizes, r \in {NULL} \cup Addrs, zfree \in BOOLEAN : Xrealloc(size, r, zfree)
    \/ Xfree

SpecAlloc == InitAlloc /\ [][NextAlloc]_vars

(***************************************************************************)
(* Properties.                                                             *)
(***************************************************************************)
Last(s) == s[Len(s)]
Front(s) == SubSeq(s, 1, Len(s) - 1)
Count(s, x) == Cardinality({i \in 1..Len(s) : s[i] = x})
AcceptChars == {ChY, Chy}
DeclineChars == {ChN, Chn, ChCR}
AnswerChars == AcceptChars \cup DeclineChars

\* the line a call with the arguments in func, file, line, fmt must print
ExpectedMessage == IF fmt = <<"value=", "%d">> THEN <<"value=", "4", "2">> ELSE <<"x", "=", "1">>
ExpectedHead(level) ==
    <<" ** libutils:", " In ", func, " (", file, ":", "1", "0", ") ", level, ": ">>
        \o ExpectedMessage

\* what the confirmation loop prints for a sequence of answers read
RECURSIVE Transcript(_)
Transcript(rs) ==
    IF rs = <<>> THEN <<>>
    ELSE <<PromptStr>>
           \o (IF Head(rs) \in AnswerChars THEN <<>> ELSE <<RepromptStr>>)
           \o Transcript(Tail(rs))

\* C1: after every _xmalloc call, either the allocator's non-null handle was
\* returned to the caller and nothing was written, or the allocator returned
\* null, the fixed diagnostic is on the error stream and the process aborted.
C1_XmallocNeverReturnsNull ==
    lastOp = "xmalloc" =>
        \/ /\ sysret # NULL
           /\ status = "running"
           /\ ret = sysret
           /\ p = sysret
           /\ stderr = <<>>
        \/ /\ sysret = NULL
           /\ status = "aborted"
           /\ stderr = <<" ** libutils: FATAL: memory allocation failed!">>

C1_Witness == lastOp = "xmalloc" /\ sysret = NULL /\ status = "aborted" /\ ncalls > 1

\* C2: after every _xrealloc call, either the allocator's result was non-null
\* and different from ptr and was returned, or it was null or equal to ptr, the
\* reallocation diagnostic is on the error stream and the process aborted.
C2_XreallocStrict ==
    lastOp = "xrealloc" =>
        \/ /\ sysret # NULL
           /\ sysret # sysarg[1]
           /\ status = "running"
           /\ ret = sysret
           /\ p = sysret
           /\ stderr = <<>>
        \/ /\ (sysret = NULL \/ sysret = sysarg[1])
           /\ status = "aborted"
           /\ stderr = <<" ** libutils: FATAL: memory reallocation failed!">>

C2_Witness ==
    lastOp = "xrealloc" /\ sysret # NULL /\ sysret = sysarg[1] /\ status = "aborted"

\* C8: every _xfree leaves the caller's variable null; on a null variable it
\* changes nothing in the allocator; and a second _xfree right after a first
\* releases nothing more.
C8_XfreeNullsAndIsIdempotent ==
    [][(lastOp' = "xfree" /\ ncalls' = ncalls + 1) =>
          /\ p' = NULL
          /\ (p = NULL => (live' = live /\ releases' = releases))
          /\ (p # NULL => (live' = live \ {p} /\ releases' = releases + 1))
          /\ (lastOp = "xfree" => (live' = live /\ releases' = releases))]_vars

C8_Witness ==
    lastOp = "xfree" /\ prevOp = "xfree" /\ releases = 1 /\ p = NULL /\ live = {}

\* C3: in a Warn_Ack call, once the answer read is 'Y' or 'y' the call only
\* cleans standard input (the process keeps running) and then returns, and when
\* it has returned nothing of standard input is left unread.
C3_AcceptDrainsThenReturns ==
    /\ (outputType = Warn_Ack /\ reads # <<>> /\ Last(reads) \in AcceptChars /\ pc # "switch") =>
          \/ pc = "drain" /\ status = "running"
          \/ pc = "done" /\ status = "returned" /\ stdin = <<>>
    /\ (outputType = Warn_Ack /\ status = "returned") =>
          /\ reads # <<>>
          /\ Last(reads) \in AcceptChars
          /\ stdin = <<>>

C3_Witness ==
    /\ outputType = Warn_Ack
    /\ status = "returned"
    /\ input0 = YThenMore
    /\ stdin = <<>>

\* C4: in a Warn_Ack call, once the answer read is 'N', 'n' or carriage return
\* the process has exit status 255 with nothing printed or read after that
\* answer; and status 255 arises in no other way (an Error call ends by abort).
C4_DeclineExits255 ==
    /\ (outputType = Warn_Ack /\ reads # <<>> /\ Last(reads) \in DeclineChars /\ pc # "switch") =>
          /\ status = "exit255"
          /\ pc = "done"
          /\ Last(stdout) = PromptStr
          /\ Len(stdin) + Len(reads) = Len(input0)
    /\ status = "exit255" =>
          /\ outputType = Warn_Ack
          /\ reads # <<>>
          /\ Last(reads) \in DeclineChars
    /\ (outputType = Error /\ pc = "done") => status = "aborted"

C4_Witness ==
    status = "exit255" /\ Last(reads) = ChCR /\ Len(reads) = 2 /\ stdin # <<>>

\* C5: an Error call writes prefix, message and newline to the error stream,
\* nothing to standard output, and aborts.
C5_ErrorAllToStderr ==
    (outputType = Error /\ pc = "done") =>
        /\ status = "aborted"
        /\ stderr = ExpectedHead("FAIL") \o <<"\n">>
        /\ stdout = <<>>

\* C6: an Info or Warn_NoAck call has, when it is over, printed exactly the
\* prefix with its level, the message and a newline on standard output, left
\* the error stream and standard input untouched, and returned.
C6_InfoWarnLine ==
    (pc = "done" /\ outputType \in {Info, Warn_NoAck}) =>
        /\ stdout = ExpectedHead(IF outputType = Info THEN "INFO" ELSE "WARN") \o <<"\n">>
        /\ stderr = <<>>
        /\ stdin = input0
        /\ status = "returned"

C6_Witness ==
    pc = "done" /\ outputType = Warn_NoAck /\ stdin # <<>> /\ fmt = <<"%s", "=", "%d">>

\* C7: in a Warn_Ack call, what follows the message line on standard output is,
\* for each answer read in order, one prompt and then one re-prompt exactly when
\* the answer is none of Y, y, N, n, carriage return; the prompt of an answer is
\* printed before it is read and its re-prompt after.  For the input x, y,
\* newline that is two prompts and one re-prompt when the call returns.
C7_PromptAndRepromptCounts ==
    (outputType = Warn_Ack /\ pc # "idle" /\ Len(stdout) < MaxOut) =>
        /\ stdout = ExpectedHead("WARN") \o <<"\n">>
                      \o (CASE pc = "getc" -> Transcript(reads) \o <<PromptStr>>
                            [] pc = "switch" -> Transcript(Front(reads)) \o <<PromptStr>>
                            [] OTHER -> Transcript(reads))
        /\ (input0 = XyLine /\ status = "returned") =>
              /\ Count(stdout, RepromptStr) = 1
              /\ Count(stdout, PromptStr) = 2

C7_Witness ==
    /\ outputType = Warn_Ack
    /\ status = "returned"
    /\ input0 = XyLine
    /\ Count(stdout, RepromptStr) = 1

\* C9 as stated: with the line xyz and a newline on standard input, none of
\* x, y, z is taken as an answer, so the call is still asking after them.
C9_XyzNoneAccepted ==
    (outputType = Warn_Ack /\ input0 = XyzLine /\ pc # "idle") =>
        /\ status = "running"
        /\ pc # "drain"

\* C9 amended: with the line xyz and a newline on standard input the loop runs
\* two turns: x is answered by the re-prompt, y is accepted; z and the newline
\* are cleaned away unexamined and the call returns.
C9_XyzAcceptedAtY ==
    (outputType = Warn_Ack /\ input0 = XyzLine /\ pc # "idle") =>
        /\ Len(reads) <= 2
        /\ status \in {"running", "returned"}
        /\ (pc \in {"drain", "done"} => reads = <<120, Chy>>)
        /\ (pc = "done" =>
              /\ status = "returned"
              /\ stdin = <<>>
              /\ Count(stdout, PromptStr) = 2
              /\ Count(stdout, RepromptStr) = 1)

C9_Witness ==
    outputType = Warn_Ack /\ input0 = XyzLine /\ pc = "done" /\ status = "returned"

\* C10: every Warn_Ack call that has reached its confirmation loop eventually
\* returns or ends the process.
C10_WarnAckTerminates ==
    (outputType = Warn_Ack /\ pc = "prompt") ~> (status # "running")

====
